---------------------------- MODULE Spec2Model ----------------------------
(***************************************************************************)
(* Model of the interactive globe (src/components/WorldMap.tsx): the       *)
(* process-wide geometry cache, the camera controller (auto-framing) and   *)
(* the gesture controller.                                                 *)
(*                                                                         *)
(* Numbers are fixed-point integers:                                       *)
(*   zoom            in thousandths            (1.0  = 1000)               *)
(*   angles in deg   in thousandths of a degree (90 deg = 90000)           *)
(*   angles in rad   in millionths of a radian  (pi = 3141593)             *)
(* A product with a decimal factor is the integer product divided by the   *)
(* factor's denominator, rounded towards zero.                             *)
(***************************************************************************)
EXTENDS Integers, Sequences, FiniteSets, TLC

\* ------------------------------------------------------------------ bounds
\* Globe instances that may be mounted at the same time (cache model).
MaxInst == 3
\* Geometry requests the model lets the process issue.
MaxFetches == 3
\* Camera-changing gestures (move, wheel, double-click) per behaviour.
MaxEvents == 2
\* Length of the trip lists the auto-framing specification enumerates.
MaxTrips == 2
\* window.innerHeight, in pixels.
InnerHeight == 400
\* Length of the trip lists the word-cloud specification builds.
MaxCloudTrips == 34

\* --------------------------------------------------------------- constants
ZoomUnit == 1000
ZoomMin == 1 * ZoomUnit
ZoomMax == 4000 * ZoomUnit
\* zoom > 1.1 is "zoomed in"
ZoomedInThreshold == (11 * ZoomUnit) \div 10
PiMicro == 3141593
MinSpanRad == 1000
FallbackRotation == <<-105000, -35000>>
\* if (items.length > 50) items = items.slice(0, 50)
WordCloudMax == 50

Min(a, b) == IF a < b THEN a ELSE b
Max(a, b) == IF a > b THEN a ELSE b
Abs(a) == IF a < 0 THEN -a ELSE a

NULL == "null"
LAND == "land"

VARIABLES
    \* process-wide geometry cache
    cachedWorldData,    \* NULL or LAND
    dataFetchPromise,   \* 0 (null) or the index of a promise in promiseState
    promiseState,       \* sequence over {"pending", "land", "undefined"}: every fetch ever issued
    inst,               \* mounted globe instances: [pc, worldData, awaiting]
    \* props of the globe instance whose camera is modelled
    trips, highlightTrip, viewMode, interactionEnabled,
    \* camera
    rotation, zoom, defaultState, tripsRef, zoomReported,
    \* viewport size the resize observer stored: <<width, height>>
    dimensions,
    \* the host application: its trips state and the trip list in local storage
    appTrips, storedTrips,
    \* gesture session
    isDragging, lastPos, evCache, prevDiff,
    \* what the latest step delivered: an input event with its type, pointer id
    \* (pointer events), clientY (touch and pointer-down) and whether the handler
    \* stopped its propagation; a resetView call; a resize; NoEvent for a render
    \* with new props or loaded geometry
    ev,
    \* camera-changing gestures so far
    nEvents,
    \* the arguments of the latest autoCenter run: [trips, highlightTrip, interactive]
    framed

cacheVars == <<cachedWorldData, dataFetchPromise, promiseState, inst>>
propVars == <<trips, highlightTrip, viewMode, interactionEnabled>>
camVars == <<rotation, zoom, defaultState, tripsRef, zoomReported, framed>>
obsVars == <<ev, nEvents>>
gestVars == <<isDragging, lastPos, evCache, prevDiff>>
hostVars == <<appTrips, storedTrips>>
\* what surrounds the globe: the viewport and the host application
viewVars == <<dimensions, hostVars>>
vars == <<cacheVars, propVars, camVars, gestVars, viewVars, obsVars>>

\* ---------------------------------------------------------- geometry cache
InstIds == 1..MaxInst

NewInst == [pc |-> "unmounted", worldData |-> NULL, awaiting |-> 0]

\* First render of instance i: useState(cachedWorldData).
Render(i) ==
    /\ inst[i].pc = "unmounted"
    /\ inst' = [inst EXCEPT ![i] = [pc |-> "rendered", worldData |-> cachedWorldData, awaiting |-> 0]]
    /\ UNCHANGED <<cachedWorldData, dataFetchPromise, promiseState>>

\* The load effect without its cache check.
usesCacheNever == FALSE

\* if (cachedWorldData): the load effect takes the geometry from the cache.
usesCache == cachedWorldData # NULL

\* The load effect without its in-flight check.
IssuesFetchUnguarded == TRUE

\* if (!dataFetchPromise): the load effect starts a request.
IssuesFetch == dataFetchPromise = 0

\* The load effect of instance i, run once after its first render.
LoadEffect(i) ==
    /\ inst[i].pc = "rendered"
    /\ IF usesCache
       THEN /\ inst' = [inst EXCEPT ![i].pc = "mounted", ![i].worldData = cachedWorldData]
            /\ UNCHANGED <<dataFetchPromise, promiseState>>
       ELSE IF IssuesFetch
       THEN /\ Len(promiseState) < MaxFetches
            /\ promiseState' = Append(promiseState, "pending")
            /\ dataFetchPromise' = Len(promiseState) + 1
            /\ inst' = [inst EXCEPT ![i].pc = "mounted", ![i].awaiting = Len(promiseState) + 1]
       ELSE /\ inst' = [inst EXCEPT ![i].pc = "mounted", ![i].awaiting = dataFetchPromise]
            /\ UNCHANGED <<dataFetchPromise, promiseState>>
    /\ UNCHANGED cachedWorldData

\* The instance is removed; a callback still registered on a promise finds a dead
\* component and its setWorldData does nothing.
Unmount(i) ==
    /\ inst[i].pc # "unmounted"
    /\ inst' = [inst EXCEPT ![i] = NewInst]
    /\ UNCHANGED <<cachedWorldData, dataFetchPromise, promiseState>>

\* A catch handler that leaves the marker on the failed promise.
MarkerKeptAfterFailure(p) == p

\* What the marker holds after the catch handler ran for promise p.
MarkerAfterFailure(p) == 0

\* The request of promise p answers and the topology converts: the cache is
\* filled, the promise resolves with the geometry and, in the same microtask
\* run, every waiter's callback stores it.
FetchSucceed(p) ==
    /\ p \in 1..Len(promiseState)
    /\ promiseState[p] = "pending"
    /\ cachedWorldData' = LAND
    /\ promiseState' = [promiseState EXCEPT ![p] = "land"]
    /\ inst' = [i \in InstIds |->
                  IF inst[i].awaiting = p
                  THEN [inst[i] EXCEPT !.worldData = LAND, !.awaiting = 0]
                  ELSE inst[i]]
    /\ UNCHANGED dataFetchPromise

\* The request, the JSON parse or the conversion throws: the catch handler logs,
\* clears the marker and resolves the promise with undefined; every waiter's
\* callback sees no data and stores nothing.
FetchFail(p) ==
    /\ p \in 1..Len(promiseState)
    /\ promiseState[p] = "pending"
    /\ promiseState' = [promiseState EXCEPT ![p] = "undefined"]
    /\ dataFetchPromise' = MarkerAfterFailure(p)
    /\ inst' = [i \in InstIds |->
                  IF inst[i].awaiting = p
                  THEN [inst[i] EXCEPT !.awaiting = 0]
                  ELSE inst[i]]
    /\ UNCHANGED cachedWorldData


\* ------------------------------------------------------------ trips (input)
\* Locations: name and coordinates (thousandths of a degree).  They lie on the
\* equator or at the north pole, where d3.geoDistance and d3.geoInterpolate
\* have closed forms.  "10" is a name that is a canonical array index; LocA2
\* carries LocA's name at other coordinates, 0.02 degrees away.  The optional
\* country, state and city are absent ("").
Loc(n, lng, lat) == [name |-> n, lng |-> lng, lat |-> lat,
                     country |-> "", state |-> "", city |-> ""]
LocA == Loc("A", 0, 0)
LocA2 == Loc("A", 20, 0)
LocB == Loc("B", 90000, 0)
LocC == Loc("C", 180000, 0)
LocN == Loc("10", -60000, 0)
LocP == Loc("P", 0, 90000)

Trip(id, o, d) == [id |-> id, origin |-> o, destination |-> d]
NoTrip == Trip("none", Loc("", 0, 0), Loc("", 0, 0))

T1 == Trip("t1", LocA, LocB)
T2 == Trip("t2", LocA, LocC)
T3 == Trip("t3", LocB, LocA)
T4 == Trip("t4", LocC, LocN)
T5 == Trip("t5", LocB, LocC)
T6 == Trip("t6", LocA2, LocA)
T7 == Trip("t7", LocP, LocB)
T8 == Trip("t8", LocA, LocA)
T9 == Trip("t9", LocB, LocN)
\* A trip from an imported file, whose id column holds a comma.
T10 == Trip("t1,t3", LocB, LocC)
TripPool == {T1, T2, T3, T4, T5, T6, T7, T8, T9, T10}

\* Trip lists without repeated trips, up to length n.
RECURSIVE TripLists(_)
TripLists(n) ==
    IF n = 0 THEN {<<>>}
    ELSE LET shorter == TripLists(n - 1)
         IN shorter \cup { Append(l, t) : l \in {s \in shorter : Len(s) = n - 1},
                                          t \in TripPool }

Injective(l) == \A i, j \in 1..Len(l) : l[i].id = l[j].id => i = j

ViewModes == {"routes", "visited"}

\* ---------------------------------------------- d3-geo on the model's points
\* d3.geoDistance, in millionths of a radian, for points on the equator or at
\* the north pole.
geoDistance(p1, p2) ==
    LET deg == IF p1.lat = 0 /\ p2.lat = 0
               THEN LET delta == Abs(p1.lng - p2.lng) % 360000
                    IN Min(delta, 360000 - delta)
               ELSE IF p1.lat = p2.lat THEN 0 ELSE 90000
    IN ((deg \div 1000) * PiMicro) \div 180 + ((deg % 1000) * (PiMicro \div 180)) \div 1000

\* d3.geoInterpolate(p1, p2)(0.5) as <<lng, lat>>: the midpoint of the shorter
\* arc; the point itself for coincident points; for the antipodal pair on the
\* equator the value the library's arithmetic yields (longitude 90, or 0 for
\* the pair at +-90).
geoMidpoint(p1, p2) ==
    IF p1.lat = 0 /\ p2.lat = 0
    THEN LET raw == (p2.lng - p1.lng) % 360000
             delta == IF raw > 180000 THEN raw - 360000 ELSE raw
         IN IF delta = 180000
            THEN <<IF p1.lng % 180000 = 0 THEN 90000 ELSE 0, 0>>
            ELSE <<p1.lng + delta \div 2, 0>>
    ELSE IF p1.lat = p2.lat THEN <<p1.lng, p1.lat>>
    ELSE <<IF p1.lat = 0 THEN p1.lng ELSE p2.lng, 45000>>

\* ------------------------------------------------------------ auto-framing
\* The padding factors the wrong way round.
paddingFactorSwapped(interactive) == IF interactive THEN 18 ELSE 15

\* paddingFactor, in tenths
paddingFactor(interactive) == IF interactive THEN 15 ELSE 18

\* targetSpan = Math.max(distanceRad * paddingFactor, minSpanRad)
targetSpan(distanceRad, interactive) ==
    Max((distanceRad * paddingFactor(interactive)) \div 10, MinSpanRad)

\* Math.min(Math.max(autoZoom, 1), 4000)
clampZoom(z) == Min(Max(z, ZoomMin), ZoomMax)

\* a / b in thousandths, by long division (the products stay within 32 bits)
divMilli(a, b) ==
    LET r0 == a % b
        r1 == (r0 * 10) % b
        r2 == (r1 * 10) % b
    IN (a \div b) * 1000 + ((r0 * 10) \div b) * 100 + ((r1 * 10) \div b) * 10 + (r2 * 10) \div b

\* autoZoom = clamp(Math.PI / targetSpan), in thousandths
autoZoom(distanceRad, interactive) ==
    clampZoom(divMilli(PiMicro, targetSpan(distanceRad, interactive)))

\* The location sequence trips.forEach visits: origin, then destination.
RECURSIVE visitOrder(_)
visitOrder(ts) ==
    IF ts = <<>> THEN <<>>
    ELSE <<Head(ts).origin, Head(ts).destination>> \o visitOrder(Tail(ts))

IndexOfName(acc, n) ==
    IF \E k \in 1..Len(acc) : acc[k].name = n
    THEN CHOOSE k \in 1..Len(acc) : acc[k].name = n
    ELSE 0

\* locCounts as the sequence of its entries in creation order; an entry keeps
\* the coordinates of the name's first occurrence.
RECURSIVE locCounts(_, _)
locCounts(locs, acc) ==
    IF locs = <<>> THEN acc
    ELSE LET l == Head(locs)
             k == IndexOfName(acc, l.name)
         IN IF k = 0
            THEN locCounts(Tail(locs),
                           Append(acc, [name |-> l.name, count |-> 1, lng |-> l.lng, lat |-> l.lat]))
            ELSE locCounts(Tail(locs), [acc EXCEPT ![k].count = @ + 1])

\* Property names that are canonical array indices, with their values.
IndexNames == {"10"}
IndexValue(n) == IF n = "10" THEN 10 ELSE -1

RECURSIVE sortByIndex(_)
sortByIndex(s) ==
    IF s = <<>> THEN <<>>
    ELSE LET m == CHOOSE k \in 1..Len(s) :
                     \A j \in 1..Len(s) : IndexValue(s[k].name) <= IndexValue(s[j].name)
         IN <<s[m]>> \o sortByIndex(SubSeq(s, 1, m - 1) \o SubSeq(s, m + 1, Len(s)))

\* Object.values(locCounts): the own properties in property order, which is
\* the integer-index keys in ascending numeric order, then the other keys in
\* creation order.
objectValues(acc) ==
    sortByIndex(SelectSeq(acc, LAMBDA e : e.name \in IndexNames))
        \o SelectSeq(acc, LAMBDA e : e.name \notin IndexNames)

\* if (lc.count > topLoc.count) topLoc = lc
takesOver(lc, top) == lc.count > top.count

RECURSIVE topLoc(_, _)
topLoc(vals, top) ==
    IF vals = <<>> THEN top
    ELSE IF takesOver(Head(vals), top)
    THEN topLoc(Tail(vals), Head(vals))
    ELSE topLoc(Tail(vals), top)

\* The pose autoCenter computes: [rotation, zoom].
autoCenterPose(ts, hl, interactive) ==
    IF hl # NoTrip
    THEN LET center == geoMidpoint(hl.origin, hl.destination)
         IN [rotation |-> <<-center[1], -center[2]>>,
             zoom |-> autoZoom(geoDistance(hl.origin, hl.destination), interactive)]
    ELSE IF Len(ts) > 0
    THEN LET top == topLoc(objectValues(locCounts(visitOrder(ts), <<>>)),
                           [name |-> "", count |-> -1, lng |-> 0, lat |-> 0])
         IN IF top.count > 0
            THEN [rotation |-> <<-top.lng, -top.lat>>, zoom |-> ZoomMin]
            ELSE [rotation |-> FallbackRotation, zoom |-> ZoomMin]
    ELSE [rotation |-> FallbackRotation, zoom |-> ZoomMin]

\* A zoom-detect effect that reports any deviation from the default zoom.
isZoomedAtAll(z, dflt) == z # dflt.zoom

\* isZoomed as the zoom-detect effect computes it: |zoom - default zoom| > 0.1
isZoomed(z, dflt) == Abs(z - dflt.zoom) > ZoomUnit \div 10

\* trips.map(t => t.id)
RECURSIVE tripIds(_)
tripIds(ts) == IF ts = <<>> THEN <<>> ELSE <<Head(ts).id>> \o tripIds(Tail(ts))

\* ids.join(','): the ids as one string, separated by commas
RECURSIVE join(_)
join(ids) ==
    IF ids = <<>> THEN ""
    ELSE IF Len(ids) = 1 THEN ids[1]
    ELSE ids[1] \o "," \o join(Tail(ids))

\* highlightTrip ? highlightTrip.id : 'none'
highlightId(hl) == IF hl # NoTrip THEN hl.id ELSE "none"

\* `${currentTripsId}-${highlightId}-${viewMode}`
identityKey(ts, hl, vm) == join(tripIds(ts)) \o "-" \o highlightId(hl) \o "-" \o vm

\* An input event as the model records it.
Event(type, id, y, stopped) ==
    [type |-> type, id |-> id, x |-> 0, y |-> y, stopped |-> stopped, deltaY |-> 0]
\* A pointer event with both client coordinates.
EventAt(type, id, x, y, stopped) == [Event(type, id, y, stopped) EXCEPT !.x = x]
\* A wheel event with its vertical delta.
WheelEvent(deltaY, stopped) == [Event("wheel", 0, 0, stopped) EXCEPT !.deltaY = deltaY]
NoEvent == Event("none", 0, 0, FALSE)
\* The event types of the handlers attached to the globe's container.
InputEvents == {"touch", "pointerdown", "pointermove", "pointerup", "wheel", "dblclick"}

\* ------------------------------------------------------- camera controller
\* autoCenter(): sets rotation and zoom to the computed pose, makes it the
\* default reference and reports isZoomed = false; the zoom-detect effect of
\* the following render reports against the new reference.
autoCenter(ts, hl, interactive) ==
    \E pose \in {autoCenterPose(ts, hl, interactive)} :
       /\ rotation' = pose.rotation
       /\ zoom' = pose.zoom
       /\ defaultState' = pose
       /\ zoomReported' = isZoomed(pose.zoom, pose)
       /\ framed' = [trips |-> ts, highlightTrip |-> hl, interactive |-> interactive]

\* A reset that restores the stored default reference instead of framing anew.
ResetViewToDefault ==
    /\ rotation' = defaultState.rotation
    /\ zoom' = defaultState.zoom
    /\ zoomReported' = FALSE
    /\ ev' = Event("resetView", 0, 0, FALSE)
    /\ UNCHANGED <<defaultState, framed, tripsRef, cacheVars, viewVars, propVars, gestVars, nEvents>>

\* The host calls resetView() through the component's handle.
ResetView ==
    /\ autoCenter(trips, highlightTrip, interactionEnabled)
    /\ ev' = Event("resetView", 0, 0, FALSE)
    /\ UNCHANGED <<tripsRef, cacheVars, viewVars, propVars, gestVars, nEvents>>

\* An identity-key effect that takes every render for a change of key.
keyChangedAlways(ts, hl, vm) == TRUE

\* if (tripsRef.current !== key)
keyChanged(ts, hl, vm) == tripsRef # identityKey(ts, hl, vm)

\* The host re-renders the globe with props (ts, hl, vm, ia); the identity-key
\* effect re-runs autoCenter when the key differs from the stored one.
SetProps(ts, hl, vm, ia) ==
    /\ <<ts, hl, vm, ia>> # <<trips, highlightTrip, viewMode, interactionEnabled>>
    /\ trips' = ts
    /\ highlightTrip' = hl
    /\ viewMode' = vm
    /\ interactionEnabled' = ia
    /\ IF keyChanged(ts, hl, vm)
       THEN /\ autoCenter(ts, hl, ia)
            /\ tripsRef' = identityKey(ts, hl, vm)
       ELSE UNCHANGED camVars
    /\ ev' = NoEvent
    /\ UNCHANGED <<cacheVars, viewVars, gestVars, nEvents>>

\* The host re-renders the globe with the same props in fresh objects (the same
\* trips in a new array): the identity-key effect runs and compares the key.
Rerender ==
    /\ IF keyChanged(trips, highlightTrip, viewMode)
       THEN /\ autoCenter(trips, highlightTrip, interactionEnabled)
            /\ tripsRef' = identityKey(trips, highlightTrip, viewMode)
       ELSE UNCHANGED camVars
    /\ ev' = NoEvent
    /\ UNCHANGED <<cacheVars, viewVars, propVars, gestVars, nEvents>>

\* A resize callback that also re-frames the camera.
ResizeReframing(w, h) ==
    /\ dimensions' = <<w, h>>
    /\ UNCHANGED hostVars
    /\ autoCenter(trips, highlightTrip, interactionEnabled)
    /\ ev' = Event("resize", 0, 0, FALSE)
    /\ UNCHANGED <<tripsRef, cacheVars, propVars, gestVars, nEvents>>

\* The ResizeObserver callback: setDimensions({ width, height })
Resize(w, h) ==
    /\ dimensions' = <<w, h>>
    /\ ev' = Event("resize", 0, 0, FALSE)
    /\ UNCHANGED <<hostVars, cacheVars, propVars, camVars, gestVars, nEvents>>

\* if (!worldData) the placeholder is rendered, which carries no handlers:
\* input reaches the handlers only once instance 1 holds the geometry.
mapShown == inst[1].worldData # NULL

\* ------------------------------------------------------------------ markers
\* projection.invert([width / 2, height / 2]): the point at the view center,
\* which the rotation [r0, r1, 0] puts at longitude -r0, latitude -r1.
viewCenter == Loc("", -rotation[1], -rotation[2])

\* A visibility test that admits the rim of the hemisphere.
isVisibleInclusive(distance) == distance <= PiMicro \div 2

\* if (distance < Math.PI / 2)
isVisible(distance) == distance < PiMicro \div 2

\* trips.forEach((t, i) => ...): a marker `dest-${i}` for each destination that
\* passes the visibility test.
RECURSIVE destPoints(_, _)
destPoints(ts, i) ==
    IF ts = <<>> THEN <<>>
    ELSE (IF isVisible(geoDistance(Head(ts).destination, viewCenter))
          THEN <<[key |-> "dest", index |-> i]>>
          ELSE <<>>) \o destPoints(Tail(ts), i + 1)

\* renderPoints: the markers in order; origin and destination of the
\* highlighted trip, or the visible destinations of the trips.
renderPoints ==
    IF highlightTrip # NoTrip
    THEN <<[key |-> "origin", index |-> 0], [key |-> "dest", index |-> 0]>>
    ELSE destPoints(trips, 0)

\* -------------------------------------------------------------- word cloud
\* The labels one trip contributes, in the order the loop counts them:
\* country, province, city; an absent ("") field is falsy.
labelsOf(t) ==
    LET c == IF t.destination.country # "" THEN t.destination.country ELSE t.origin.country
        p == IF t.destination.state # "" THEN t.destination.state ELSE t.origin.state
        city == IF t.destination.city # "" THEN t.destination.city ELSE t.destination.name
    IN (IF c # "" THEN <<[key |-> "c-" \o c, type |-> "country", text |-> c]>> ELSE <<>>)
       \o (IF p # "" THEN <<[key |-> "p-" \o p, type |-> "province", text |-> p]>> ELSE <<>>)
       \o (IF city # "" THEN <<[key |-> "ct-" \o city, type |-> "city", text |-> city]>> ELSE <<>>)

\* The labels trips.forEach counts, in the order it meets them.
RECURSIVE allLabels(_)
allLabels(ts) == IF ts = <<>> THEN <<>> ELSE labelsOf(Head(ts)) \o allLabels(Tail(ts))

\* Object.values(counts): one entry per key, created where the key is first met
\* (if (!counts[key]) counts[key] = {...}) and counting every occurrence
\* (counts[key].count++); the keys start with a letter, so the entries come in
\* creation order.
wordCounts(ts) ==
    LET labels == allLabels(ts)
        first == {k \in 1..Len(labels) : \A j \in 1..(k - 1) : labels[j].key # labels[k].key}
        nth == [i \in 1..Cardinality(first) |->
                   CHOOSE k \in first : Cardinality({j \in first : j <= k}) = i]
    IN [i \in 1..Cardinality(first) |->
           [key |-> labels[nth[i]].key, type |-> labels[nth[i]].type, text |-> labels[nth[i]].text,
            count |-> Cardinality({j \in 1..Len(labels) : labels[j].key = labels[nth[i]].key})]]

\* items.sort((a, b) => b.count - a.count): descending by count, stable; an
\* item's place is behind every item that counts more and every earlier item
\* that counts the same.
sortByCount(items) ==
    LET place == [k \in 1..Len(items) |->
                     1 + Cardinality({j \in 1..Len(items) : items[j].count > items[k].count})
                       + Cardinality({j \in 1..(k - 1) : items[j].count = items[k].count})]
    IN [i \in 1..Len(items) |-> items[CHOOSE k \in 1..Len(items) : place[k] = i]]

\* A word cloud that keeps every label.
sliceNone(items) == items

\* if (items.length > 50) items = items.slice(0, 50)
sliceTop(items) == IF Len(items) > WordCloudMax THEN SubSeq(items, 1, WordCloudMax) ELSE items

\* wordCloudElements: the labels the cloud shows, in order
wordCloudElements(ts, hl, enableWordCloud, interactive) ==
    IF ~enableWordCloud /\ ~interactive THEN <<>>
    ELSE IF hl # NoTrip THEN <<>>
    ELSE sliceTop(sortByCount(wordCounts(ts)))

\* ------------------------------------------------------ gesture controller
\* const isZoomedIn = zoom > 1.1
isZoomedIn == zoom > ZoomedInThreshold

\* The bands with their edges included.
isNavZoneInclusive(y) == y * 100 <= InnerHeight * 25 \/ y * 100 >= InnerHeight * 75

\* clientY < innerHeight * 0.25 || clientY > innerHeight * 0.75
isNavZone(y) == y * 100 < InnerHeight * 25 \/ y * 100 > InnerHeight * 75

\* Whether handleTouchGatekeeper stops propagation (when interactive).
touchStops(y) == isZoomedIn \/ ~isNavZone(y)

\* Whether handlePointerDown goes on to capture the pointer (when interactive).
pointerCaptures(y) == ~(~isZoomedIn /\ isNavZone(y) /\ highlightTrip = NoTrip)

\* onTouchStart / onTouchMove
handleTouchGatekeeper(y) ==
    /\ ev' = Event("touch", 0, y, interactionEnabled /\ touchStops(y))
    /\ UNCHANGED <<cacheVars, viewVars, propVars, camVars, gestVars, nEvents>>

\* onPointerDown
handlePointerDown(id, x, y) ==
    /\ IF interactionEnabled /\ pointerCaptures(y)
       THEN /\ ev' = Event("pointerdown", id, y, TRUE)
            /\ evCache' = Append(evCache, [pointerId |-> id, x |-> x, y |-> y])
            /\ IF Len(evCache) = 0
               THEN isDragging' = TRUE /\ lastPos' = <<x, y>>
               ELSE UNCHANGED <<isDragging, lastPos>>
       ELSE /\ ev' = Event("pointerdown", id, y, FALSE)
            /\ UNCHANGED <<evCache, isDragging, lastPos>>
    /\ UNCHANGED <<prevDiff, cacheVars, viewVars, propVars, camVars, nEvents>>

\* A findIndex whose miss falls through to splice(-1, 1): the last entry.
findIndexOrLast(cache, id) ==
    IF \E k \in 1..Len(cache) : cache[k].pointerId = id
    THEN CHOOSE k \in 1..Len(cache) :
            /\ cache[k].pointerId = id
            /\ \A j \in 1..(k - 1) : cache[j].pointerId # id
    ELSE Len(cache)

\* evCache.findIndex(cachedEv => cachedEv.pointerId === id), 0 for -1
findIndex(cache, id) ==
    IF \E k \in 1..Len(cache) : cache[k].pointerId = id
    THEN CHOOSE k \in 1..Len(cache) :
            /\ cache[k].pointerId = id
            /\ \A j \in 1..(k - 1) : cache[j].pointerId # id
    ELSE 0

\* Math.hypot of the two cached pointers' offsets, kept squared: the handler
\* only compares distances with each other and with 0.
curDiff(cache) ==
    (cache[1].x - cache[2].x) * (cache[1].x - cache[2].x)
        + (cache[1].y - cache[2].y) * (cache[1].y - cache[2].y)

\* The integer square root, by Newton's iteration from above.
RECURSIVE isqrtFrom(_, _)
isqrtFrom(n, r) ==
    LET next == (r + n \div r) \div 2
    IN IF next >= r THEN r ELSE isqrtFrom(n, next)
isqrt(n) == IF n = 0 THEN 0 ELSE isqrtFrom(n, n)

\* A drag step with the sensitivity of zoom 1 at every zoom.
dragDeltaFlat(d, z) == d * 250

\* dx * sensitivity in thousandths of a degree, sensitivity = 0.25 / sqrt(zoom);
\* isqrt(z * 10) is sqrt(zoom) in hundredths
dragDelta(d, z) ==
    LET mag == (Abs(d) * 250 * 100) \div isqrt(z * 10)
    IN IF d < 0 THEN -mag ELSE mag

pinchGrow(z) == Min((z * 105) \div 100, ZoomMax)
pinchShrink(z) == Max((z * 95) \div 100, ZoomMin)
wheelIn(z) == Min((z * 11) \div 10, ZoomMax)
\* The wheel's zoom-out step without its lower clamp.
wheelOutUnclamped(z) == (z * 10) \div 11
wheelOut(z) == Max((z * 10) \div 11, ZoomMin)
\* zoomIn without its upper clamp.
zoomInUnclamped(z) == (z * 3) \div 2
\* const zoomIn = () => setZoom(z => Math.min(z * 1.5, 4000))
zoomIn(z) == Min((z * 3) \div 2, ZoomMax)

\* The model's budget of camera-changing gestures: a gesture that changes zoom
\* or rotation is counted, and none is taken beyond MaxEvents.
Budget ==
    /\ nEvents' = IF zoom' # zoom \/ rotation' # rotation THEN nEvents + 1 ELSE nEvents
    /\ nEvents' <= MaxEvents

\* onPointerMove
handlePointerMove(id, x, y) ==
    /\ IF ~interactionEnabled
       THEN /\ ev' = EventAt("pointermove", id, x, y, FALSE)
            /\ UNCHANGED <<camVars, gestVars>>
       ELSE LET index == findIndex(evCache, id)
                cache == IF index # 0
                         THEN [evCache EXCEPT ![index] = [pointerId |-> id, x |-> x, y |-> y]]
                         ELSE evCache
            IN /\ ev' = EventAt("pointermove", id, x, y, index # 0)
               /\ evCache' = cache
               /\ IF Len(cache) = 2
                  THEN /\ zoom' = IF prevDiff > 0 /\ curDiff(cache) > prevDiff THEN pinchGrow(zoom)
                                  ELSE IF prevDiff > 0 /\ curDiff(cache) < prevDiff THEN pinchShrink(zoom)
                                  ELSE zoom
                       /\ prevDiff' = curDiff(cache)
                       /\ zoomReported' = isZoomed(zoom', defaultState)
                       /\ UNCHANGED <<rotation, defaultState, tripsRef, framed, isDragging, lastPos>>
                  ELSE IF isDragging /\ lastPos # <<>> /\ Len(cache) = 1
                  THEN /\ rotation' = <<rotation[1] + dragDelta(x - lastPos[1], zoom),
                                        rotation[2] - dragDelta(y - lastPos[2], zoom)>>
                       /\ lastPos' = <<x, y>>
                       /\ zoomReported' = isZoomed(zoom, defaultState)
                       /\ UNCHANGED <<zoom, defaultState, tripsRef, framed, isDragging, prevDiff>>
                  ELSE UNCHANGED <<camVars, isDragging, lastPos, prevDiff>>
    /\ Budget
    /\ UNCHANGED <<cacheVars, viewVars, propVars>>

\* evCache.splice(index, 1)
splice(cache, index) == SubSeq(cache, 1, index - 1) \o SubSeq(cache, index + 1, Len(cache))

\* A release that ends the drag session as soon as fewer than two pointers remain.
dragEndsEarly(cache) == Len(cache) < 2

\* if (evCache.current.length === 0): the drag session ends
dragEnds(cache) == Len(cache) = 0

\* onPointerUp / onPointerLeave
handlePointerUp(id) ==
    /\ ev' = Event("pointerup", id, 0, FALSE)
    /\ IF ~interactionEnabled
       THEN UNCHANGED gestVars
       ELSE LET index == findIndex(evCache, id)
                cache == IF index # 0 THEN splice(evCache, index) ELSE evCache
            IN /\ evCache' = cache
               /\ prevDiff' = IF Len(cache) < 2 THEN -1 ELSE prevDiff
               /\ IF dragEnds(cache)
                  THEN isDragging' = FALSE /\ lastPos' = <<>>
                  ELSE UNCHANGED <<isDragging, lastPos>>
    /\ UNCHANGED <<cacheVars, viewVars, propVars, camVars, nEvents>>

\* A wheel handler without the interactionEnabled guard.
handleWheelUnguarded(deltaY) ==
    /\ ev' = WheelEvent(deltaY, TRUE)
    /\ zoom' = IF deltaY < 0 THEN wheelIn(zoom) ELSE wheelOut(zoom)
    /\ zoomReported' = isZoomed(zoom', defaultState)
    /\ UNCHANGED <<rotation, defaultState, tripsRef, framed>>
    /\ Budget
    /\ UNCHANGED <<cacheVars, viewVars, propVars, gestVars>>

\* onWheel; deltaY is negative, zero or positive
handleWheel(deltaY) ==
    /\ IF ~interactionEnabled
       THEN /\ ev' = WheelEvent(deltaY, FALSE)
            /\ UNCHANGED camVars
       ELSE /\ ev' = WheelEvent(deltaY, TRUE)
            /\ zoom' = IF deltaY < 0 THEN wheelIn(zoom) ELSE wheelOut(zoom)
            /\ zoomReported' = isZoomed(zoom', defaultState)
            /\ UNCHANGED <<rotation, defaultState, tripsRef, framed>>
    /\ Budget
    /\ UNCHANGED <<cacheVars, viewVars, propVars, gestVars>>

\* onDoubleClick
handleDoubleClick ==
    /\ IF ~interactionEnabled
       THEN /\ ev' = Event("dblclick", 0, 0, FALSE)
            /\ UNCHANGED camVars
       ELSE /\ ev' = Event("dblclick", 0, 0, TRUE)
            /\ zoom' = zoomIn(zoom)
            /\ zoomReported' = isZoomed(zoom', defaultState)
            /\ UNCHANGED <<rotation, defaultState, tripsRef, framed>>
    /\ Budget
    /\ UNCHANGED <<cacheVars, viewVars, propVars, gestVars>>

\* ------------------------------------------------------- trip store and App
\* The stored list is kept as the value JSON.parse returns for the stored
\* text; App's list is always such a value (setTrips(getTrips())).
\* getTrips()
getTrips == storedTrips

\* addTrip: trips.unshift(...tripOrTrips) on the stored list, then saveTrips
addTrip(stored, tripOrTrips) == tripOrTrips \o stored

\* updateTrip: the first trip with the id is replaced; saved only when found
updateTrip(stored, updatedTrip) ==
    IF \E k \in 1..Len(stored) : stored[k].id = updatedTrip.id
    THEN LET index == CHOOSE k \in 1..Len(stored) :
                         /\ stored[k].id = updatedTrip.id
                         /\ \A j \in 1..(k - 1) : stored[j].id # updatedTrip.id
         IN [stored EXCEPT ![index] = updatedTrip]
    ELSE stored

\* deleteTrip: getTrips().filter(t => t.id !== id), then saveTrips
deleteTrip(stored, id) == SelectSeq(stored, LAMBDA t : t.id # id)

\* AddTripModal's onSave in create mode: addTrip(newTrips); refreshTrips()
onSaveNew(newTrips) ==
    /\ storedTrips' = addTrip(getTrips, newTrips)
    /\ appTrips' = storedTrips'
    /\ ev' = Event("onSave", 0, 0, FALSE)
    /\ UNCHANGED <<dimensions, cacheVars, propVars, camVars, gestVars, nEvents>>

\* AddTripModal's onSave while editingTrip is set: updateTrip(newTrips[0]);
\* refreshTrips()
onSaveEdit(newTrips) ==
    /\ storedTrips' = updateTrip(getTrips, newTrips[1])
    /\ appTrips' = storedTrips'
    /\ ev' = Event("onSave", 0, 0, FALSE)
    /\ UNCHANGED <<dimensions, cacheVars, propVars, camVars, gestVars, nEvents>>

\* handleUpdateTrip: updateTrip(updatedTrip); refreshTrips()
handleUpdateTrip(updatedTrip) ==
    /\ storedTrips' = updateTrip(getTrips, updatedTrip)
    /\ appTrips' = storedTrips'
    /\ ev' = Event("onUpdateTrip", 0, 0, FALSE)
    /\ UNCHANGED <<dimensions, cacheVars, propVars, camVars, gestVars, nEvents>>

\* onDelete={deleteTrip}: the views are handed the store's deleteTrip itself,
\* so setTrips is not called.
onDelete(id) ==
    /\ storedTrips' = deleteTrip(getTrips, id)
    /\ UNCHANGED appTrips
    /\ ev' = Event("onDelete", 0, 0, FALSE)
    /\ UNCHANGED <<dimensions, cacheVars, propVars, camVars, gestVars, nEvents>>

\* ----------------------------------------------------------- specifications
\* The camera and gesture variables of a globe that was mounted with props
\* (ts, hl, vm, ia): the identity-key effect of the mount has run autoCenter.
MountedCamera(ts, hl, vm, ia) ==
    LET pose == autoCenterPose(ts, hl, ia)
    IN /\ trips = ts /\ highlightTrip = hl /\ viewMode = vm /\ interactionEnabled = ia
       /\ rotation = pose.rotation /\ zoom = pose.zoom /\ defaultState = pose
       /\ tripsRef = identityKey(ts, hl, vm)
       /\ zoomReported = FALSE
       /\ framed = [trips |-> ts, highlightTrip |-> hl, interactive |-> ia]
       /\ isDragging = FALSE /\ lastPos = <<>> /\ evCache = <<>> /\ prevDiff = -1
       /\ dimensions = <<800, 400>>
       /\ appTrips = <<>> /\ storedTrips = <<>>
       /\ ev = NoEvent
       /\ nEvents = 0

\* The cache variables once the geometry has been fetched and instance 1 holds it.
LoadedCache ==
    /\ cachedWorldData = LAND
    /\ dataFetchPromise = 1
    /\ promiseState = <<"land">>
    /\ inst = [i \in InstIds |-> IF i = 1 THEN [pc |-> "mounted", worldData |-> LAND, awaiting |-> 0]
                                 ELSE NewInst]

\* -- the geometry cache: mounts, unmounts and fetch outcomes
InitCache ==
    /\ cachedWorldData = NULL
    /\ dataFetchPromise = 0
    /\ promiseState = <<>>
    /\ inst = [i \in InstIds |-> NewInst]
    /\ MountedCamera(<<>>, NoTrip, "routes", TRUE)

NextCache ==
    \/ \E i \in InstIds : Render(i) /\ UNCHANGED <<propVars, camVars, gestVars, viewVars, obsVars>>
    \/ \E i \in InstIds : LoadEffect(i) /\ UNCHANGED <<propVars, camVars, gestVars, viewVars, obsVars>>
    \/ \E i \in InstIds : Unmount(i) /\ UNCHANGED <<propVars, camVars, gestVars, viewVars, obsVars>>
    \/ \E p \in 1..MaxFetches : FetchSucceed(p) /\ UNCHANGED <<propVars, camVars, gestVars, viewVars, obsVars>>
    \/ \E p \in 1..MaxFetches : FetchFail(p) /\ UNCHANGED <<propVars, camVars, gestVars, viewVars, obsVars>>

SpecCache == InitCache /\ [][NextCache]_vars

\* React runs the load effect of an instance that has rendered, and a request
\* that is in flight settles: it answers or it fails.
CacheFairness ==
    /\ \A i \in InstIds :
          WF_vars(LoadEffect(i) /\ UNCHANGED <<propVars, camVars, gestVars, viewVars, obsVars>>)
    /\ \A p \in 1..MaxFetches :
          WF_vars((FetchSucceed(p) \/ FetchFail(p))
                     /\ UNCHANGED <<propVars, camVars, gestVars, viewVars, obsVars>>)

SpecCacheLive == InitCache /\ [][NextCache]_vars /\ CacheFairness

\* -- one mounted globe under gestures, resets and prop changes
PointerIds == {1, 2}
ZoneYs == {InnerHeight \div 10, InnerHeight \div 4, InnerHeight \div 2,
           (3 * InnerHeight) \div 4, (9 * InnerHeight) \div 10}
Points == {<<100, InnerHeight \div 10>>, <<160, InnerHeight \div 2>>}
GestureHighlights == {NoTrip, T8}

Init ==
    /\ LoadedCache
    /\ \E ia \in BOOLEAN : MountedCamera(<<>>, NoTrip, "routes", ia)

\* A pointer that is down is not pressed again before it is released.
Pressable(id) == \A k \in 1..Len(evCache) : evCache[k].pointerId # id

Next ==
    \/ \E pt \in Points : handleTouchGatekeeper(pt[2])
    \/ \E id \in PointerIds, pt \in Points : Pressable(id) /\ handlePointerDown(id, pt[1], pt[2])
    \/ \E id \in PointerIds, pt \in Points : handlePointerMove(id, pt[1], pt[2])
    \/ \E id \in PointerIds : handlePointerUp(id)
    \/ \E d \in {-1, 1} : handleWheel(d)
    \/ handleDoubleClick
    \/ ResetView
    \/ \E hl \in GestureHighlights : SetProps(trips, hl, viewMode, interactionEnabled)
    \/ SetProps(trips, highlightTrip, viewMode, ~interactionEnabled)

Spec == Init /\ [][Next]_vars

\* -- the zoning rule: touch and pointer-down over the screen bands
ZoneHighlights == {NoTrip, T1, T2}

NextZone ==
    \/ \E y \in ZoneYs : handleTouchGatekeeper(y)
    \/ \E y \in ZoneYs : Pressable(1) /\ handlePointerDown(1, 100, y)
    \/ handlePointerUp(1)
    \/ \E d \in {-1, 0, 1} : handleWheel(d)
    \/ handleDoubleClick
    \/ ResetView
    \/ \E hl \in ZoneHighlights : SetProps(trips, hl, viewMode, interactionEnabled)
    \/ SetProps(trips, highlightTrip, viewMode, ~interactionEnabled)

SpecZone == Init /\ [][NextZone]_vars

\* -- auto-framing over trip lists, highlights and the interactive flag
InitFrame ==
    /\ LoadedCache
    /\ \E vm \in ViewModes, ia \in BOOLEAN : MountedCamera(<<>>, NoTrip, vm, ia)

NextFrame ==
    \/ ResetView
    \/ \E t \in TripPool :
          /\ Len(trips) < MaxTrips
          /\ Injective(Append(trips, t))
          /\ SetProps(Append(trips, t), highlightTrip, viewMode, interactionEnabled)
    \/ /\ Len(trips) > 0
       /\ SetProps(SubSeq(trips, 1, Len(trips) - 1), highlightTrip, viewMode, interactionEnabled)
    \/ \E t \in TripPool : SetProps(<<t>>, highlightTrip, viewMode, interactionEnabled)
    \/ \E hl \in {NoTrip} \cup TripPool : SetProps(trips, hl, viewMode, interactionEnabled)
    \/ \E vm \in ViewModes : SetProps(trips, highlightTrip, vm, interactionEnabled)
    \/ SetProps(trips, highlightTrip, viewMode, ~interactionEnabled)

SpecFrame == InitFrame /\ [][NextFrame]_vars

\* -- renders of one globe: geometry load, resize, re-delivered props, gestures
\* T1 after an edit of its destination: the same id, another route.
T1Edited == Trip("t1", LocA, LocC)
RenderLists == {<<T1>>, <<T1Edited>>, <<T3>>}
Viewports == {<<800, 400>>, <<375, 640>>}

\* Instance 1 is mounted with one trip and waits for the geometry request it issued.
InitRender ==
    /\ cachedWorldData = NULL
    /\ dataFetchPromise = 1
    /\ promiseState = <<"pending">>
    /\ inst = [i \in InstIds |-> IF i = 1 THEN [pc |-> "mounted", worldData |-> NULL, awaiting |-> 1]
                                 ELSE NewInst]
    /\ MountedCamera(<<T1>>, NoTrip, "routes", TRUE)

NextRender ==
    \/ FetchSucceed(1) /\ ev' = NoEvent /\ UNCHANGED <<propVars, camVars, gestVars, viewVars, nEvents>>
    \/ FetchFail(1) /\ ev' = NoEvent /\ UNCHANGED <<propVars, camVars, gestVars, viewVars, nEvents>>
    \/ \E d \in Viewports : Resize(d[1], d[2])
    \/ Rerender
    \/ \E ts \in RenderLists : SetProps(ts, highlightTrip, viewMode, interactionEnabled)
    \/ \E hl \in GestureHighlights : SetProps(trips, hl, viewMode, interactionEnabled)
    \/ ResetView
    \/ \E d \in {-1, 1} : mapShown /\ handleWheel(d)
    \/ mapShown /\ handleDoubleClick
    \/ \E pt \in Points : mapShown /\ Pressable(1) /\ handlePointerDown(1, pt[1], pt[2])
    \/ \E pt \in Points : mapShown /\ handlePointerMove(1, pt[1], pt[2])
    \/ mapShown /\ handlePointerUp(1)

SpecRender == InitRender /\ [][NextRender]_vars

\* -- the word cloud over long trip lists
\* The k-th trip of a list: one of three countries, a province of its own and
\* a city it shares with one neighbour.  With full its destination carries
\* country, province and city; otherwise the country comes from the origin,
\* the destination has no city and its name stands in.
CloudTrip(k, full) ==
    LET country == "K" \o ToString(k % 3)
        city == "Y" \o ToString(k \div 2)
    IN [id |-> "w" \o ToString(k),
        origin |-> [name |-> "A", lng |-> 0, lat |-> 0,
                    country |-> IF full THEN "" ELSE country, state |-> "", city |-> ""],
        destination |-> [name |-> IF full THEN "D" \o ToString(k) ELSE city,
                         lng |-> 90000, lat |-> 0,
                         country |-> IF full THEN country ELSE "",
                         state |-> "S" \o ToString(k),
                         city |-> IF full THEN city ELSE ""]]

NextCloud ==
    \/ \E full \in BOOLEAN :
          /\ Len(trips) < MaxCloudTrips
          /\ trips # <<>> => trips[1] = CloudTrip(1, full)
          /\ SetProps(Append(trips, CloudTrip(Len(trips) + 1, full)),
                      highlightTrip, viewMode, interactionEnabled)
    \/ /\ Len(trips) > 0
       /\ SetProps(SubSeq(trips, 1, Len(trips) - 1), highlightTrip, viewMode, interactionEnabled)
    \/ \E hl \in GestureHighlights : SetProps(trips, hl, viewMode, interactionEnabled)
    \/ SetProps(trips, highlightTrip, viewMode, ~interactionEnabled)

SpecCloud == Init /\ [][NextCloud]_vars

\* -- the gesture session of an interactive globe under up to three pointers
TouchPointers == {1, 2, 3}
\* A mouse that hovers over the globe and leaves it without ever being pressed.
HoverPointers == {4}
\* Where a pointer goes down: in the middle band or in the top band.
DownPoints == {<<100, InnerHeight \div 2>>, <<100, InnerHeight \div 10>>}
\* Where a pointer moves to.
MovePoints == {<<160, InnerHeight \div 2>>, <<250, InnerHeight \div 2>>}

InitPointer ==
    /\ LoadedCache
    /\ MountedCamera(<<>>, NoTrip, "routes", TRUE)

NextPointer ==
    \/ \E id \in TouchPointers, pt \in DownPoints :
          Pressable(id) /\ handlePointerDown(id, pt[1], pt[2])
    \/ \E id \in TouchPointers, pt \in MovePoints : handlePointerMove(id, pt[1], pt[2])
    \/ \E id \in TouchPointers \cup HoverPointers : handlePointerUp(id)

SpecPointer == InitPointer /\ [][NextPointer]_vars

\* -- the host application: trips added, edited and deleted from its views
\* The trips the add dialog creates: one way, or out and back.
NewTrips == {<<T1>>, <<T2>>, <<T3, T4>>}
\* A trip after an edit in the dialog or on its card: the same id, another
\* destination.
Edited(t) == Trip(t.id, t.origin, LocC)
\* The ids the store holds or would hold with the new trips.
idsOf(ts) == {ts[k].id : k \in 1..Len(ts)}

NextApp ==
    \/ \E new \in NewTrips :
          /\ Len(storedTrips) + Len(new) <= MaxTrips + 1
          /\ idsOf(new) \cap idsOf(storedTrips) = {}
          /\ onSaveNew(new)
    \/ \E k \in 1..Len(appTrips) : onSaveEdit(<<Edited(appTrips[k])>>)
    \/ \E k \in 1..Len(appTrips) : handleUpdateTrip(Trip(appTrips[k].id, LocC, appTrips[k].destination))
    \/ \E k \in 1..Len(appTrips) : onDelete(appTrips[k].id)

SpecApp == InitPointer /\ [][NextApp]_vars

\* ------------------------------------------------------------------ claims
Pending == {p \in 1..Len(promiseState) : promiseState[p] = "pending"}
Failed == {p \in 1..Len(promiseState) : promiseState[p] = "undefined"}
Succeeded == {p \in 1..Len(promiseState) : promiseState[p] = "land"}
ActiveIds == {evCache[k].pointerId : k \in 1..Len(evCache)}
\* The load effect of instance i runs in this step.
LoadEffectStep(i) == inst[i].pc = "rendered" /\ inst'[i].pc = "mounted"

\* C1: in every reachable state of a globe, zoom lies in [1, 4000], after
\* auto-framing and after any sequence of pinch moves, wheel events and
\* double-clicks.
C1_ZoomWithinBounds == zoom >= 1 * ZoomUnit /\ zoom <= 4000 * ZoomUnit

\* C1 witness: a wheel event arrived at the upper bound (after a highlight was
\* framed and a double-click hit the clamp).
C1_Witness == zoom = 4000 * ZoomUnit /\ ev.type = "wheel" /\ ev.stopped

\* C2: while a fetch is in flight no mount issues another request; every
\* waiting instance waits on the one in-flight promise, so at most one fetch is
\* outstanding at a time.
C2_SingleFlight ==
    /\ [](/\ Cardinality(Pending) <= 1
          /\ \A i \in InstIds : inst[i].awaiting # 0 => inst[i].awaiting \in Pending)
    /\ [][Pending # {} => Len(promiseState') = Len(promiseState)]_vars

\* C2 witness: two instances wait on the first and only request.
C2_Witness ==
    /\ promiseState = <<"pending">>
    /\ Cardinality({i \in InstIds : inst[i].awaiting = 1}) >= 2

\* C3: once a fetch has succeeded the cache holds the geometry in every later
\* state, and every later mount takes the geometry from the cache without a
\* request.
C3_CacheKeptAndUsed ==
    [][cachedWorldData = LAND =>
        /\ cachedWorldData' = LAND
        /\ Len(promiseState') = Len(promiseState)
        /\ \A i \in InstIds :
              /\ (inst[i].pc = "unmounted" /\ inst'[i].pc = "rendered") => inst'[i].worldData = LAND
              /\ LoadEffectStep(i) => inst'[i].worldData = LAND /\ inst'[i].awaiting = 0]_vars

\* C3 witness: with the cache filled, one instance holds the geometry after its
\* load effect and another has just rendered with it.
C3_Witness ==
    /\ cachedWorldData = LAND
    /\ \E i, j \in InstIds :
          /\ inst[i].pc = "mounted" /\ inst[i].worldData = LAND
          /\ inst[j].pc = "rendered" /\ inst[j].worldData = LAND

\* C4 (as claimed): over the process lifetime the geometry source is requested
\* at most once, whatever the mounts, unmounts and fetch outcomes.
C4_AtMostOneRequest == Len(promiseState) <= 1

\* C4 (amended): a request is issued only when none is in flight and none has
\* succeeded, so the requests number at most one more than the failed fetches,
\* at most one succeeds, and none follows a success.
C4_OneRequestPerFailure ==
    /\ Len(promiseState) <= 1 + Cardinality(Failed)
    /\ Cardinality(Succeeded) <= 1
    /\ \A p \in Succeeded : p = Len(promiseState)

\* C4 witness: a second request after the first one failed.
C4_Witness == Len(promiseState) = 2 /\ promiseState[1] = "undefined" /\ promiseState[2] = "land"

\* C5: when a fetch fails the cache stays empty, the in-flight marker is
\* cleared and every waiting instance gets no geometry; the load effect of the
\* next mount, finding neither cache nor marker, issues a new fetch and waits
\* on it.
C5_FailureClearsMarker ==
    [][/\ \A p \in Pending :
             promiseState'[p] = "undefined" =>
                /\ cachedWorldData' = NULL
                /\ dataFetchPromise' = 0
                /\ \A i \in InstIds :
                      inst[i].awaiting = p =>
                          /\ inst'[i].worldData = NULL
                          /\ inst'[i].awaiting = 0
                          /\ inst'[i].pc = inst[i].pc
       /\ \A i \in InstIds :
             (LoadEffectStep(i) /\ Failed # {} /\ Pending = {} /\ Succeeded = {}) =>
                /\ Len(promiseState') = Len(promiseState) + 1
                /\ promiseState'[Len(promiseState')] = "pending"
                /\ inst'[i].awaiting = Len(promiseState')]_vars

\* C5 witness: the first fetch failed, an instance that waited on it is mounted
\* without geometry, and a later mount has issued the second fetch.
C5_Witness ==
    /\ promiseState = <<"undefined", "pending">>
    /\ cachedWorldData = NULL
    /\ \E i, j \in InstIds :
          /\ inst[i].pc = "mounted" /\ inst[i].worldData = NULL /\ inst[i].awaiting = 0
          /\ inst[j].awaiting = 2

\* C6: in an interactive view with no highlighted trip, a touch-start,
\* touch-move or pointer-down is left uncaptured (propagation not stopped,
\* pointer not added to the active set) exactly when zoom <= 1.1 and y is in
\* the top band (y < H/4) or the bottom band (y > 3H/4).
C6_ZoningWithoutHighlight ==
    (interactionEnabled /\ highlightTrip = NoTrip /\ ev.type \in {"touch", "pointerdown"}) =>
        LET band == 4 * ev.y < InnerHeight \/ 4 * ev.y > 3 * InnerHeight
            uncaptured == 10 * zoom <= 11 * ZoomUnit /\ band
        IN /\ ev.stopped <=> ~uncaptured
           /\ ev.type = "pointerdown" => (ev.id \in ActiveIds <=> ~uncaptured)

\* C6 witness: a pointer-down in the top band at zoom exactly 1.1 was left
\* uncaptured.
C6_Witness ==
    /\ interactionEnabled /\ highlightTrip = NoTrip
    /\ ev.type = "pointerdown" /\ ~ev.stopped /\ ev.id \notin ActiveIds
    /\ 10 * zoom = 11 * ZoomUnit
    /\ 4 * ev.y < InnerHeight

\* C7 (as claimed): for every y, zoom and highlight, the touch handler stops
\* propagation exactly when the pointer-down handler would capture the event
\* in the same state; both capture whenever a highlighted trip is framed.
C7_TouchAgreesWithPointerDown ==
    (interactionEnabled /\ ev.type = "touch") =>
        /\ ev.stopped <=> pointerCaptures(ev.y)
        /\ highlightTrip # NoTrip => ev.stopped

\* C8: in a non-interactive view no input event changes rotation, zoom, the
\* drag flag, the active pointer set, the last position or the pinch baseline,
\* and none stops propagation.
C8_NonInteractiveIgnoresInput ==
    [][(~interactionEnabled /\ ev'.type \in InputEvents) =>
          /\ UNCHANGED <<rotation, zoom, isDragging, evCache, lastPos, prevDiff>>
          /\ ~ev'.stopped]_vars

\* C8 witness: a wheel event reached a non-interactive view that still holds a
\* pointer from before interaction was switched off.
C8_Witness == ~interactionEnabled /\ ev.type = "wheel" /\ evCache # <<>>

\* The k-th location of a trip list in trip order, origin before destination.
C9_LocAt(ts, k) == IF k % 2 = 1 THEN ts[(k + 1) \div 2].origin ELSE ts[k \div 2].destination
C9_Count(ts, n) == Cardinality({k \in 1..(2 * Len(ts)) : C9_LocAt(ts, k).name = n})
C9_FirstPos(ts, n) ==
    CHOOSE k \in 1..(2 * Len(ts)) :
        /\ C9_LocAt(ts, k).name = n
        /\ \A j \in 1..(k - 1) : C9_LocAt(ts, j).name # n
\* The first occurrence of the name with the highest count, a tie going to the
\* name encountered first.
C9_Winner(ts) ==
    CHOOSE k \in 1..(2 * Len(ts)) :
        LET n == C9_LocAt(ts, k).name
        IN /\ k = C9_FirstPos(ts, n)
           /\ \A j \in 1..(2 * Len(ts)) :
                 LET m == C9_LocAt(ts, j).name
                 IN \/ C9_Count(ts, m) < C9_Count(ts, n)
                    \/ C9_Count(ts, m) = C9_Count(ts, n) /\ C9_FirstPos(ts, m) >= k

\* C9 (as claimed): auto-framing with no highlighted trip yields the fallback
\* rotation at zoom 1 for an empty trip list, and otherwise centers at zoom 1
\* on the location whose name occurs most often among the origins and
\* destinations, a tie going to the name encountered first.
C9_CentersOnMostFrequent ==
    framed.highlightTrip = NoTrip =>
        IF framed.trips = <<>>
        THEN defaultState = [rotation |-> <<-105000, -35000>>, zoom |-> 1 * ZoomUnit]
        ELSE LET loc == C9_LocAt(framed.trips, C9_Winner(framed.trips))
             IN defaultState = [rotation |-> <<-loc.lng, -loc.lat>>, zoom |-> 1 * ZoomUnit]

\* C10: auto-framing with a highlighted trip: the divisor max(d * p, 0.001) is
\* positive and the zoom is pi / divisor clamped to [1, 4000], p being 1.5
\* when interactive and 1.8 otherwise; stated by cross-multiplication, to the
\* hundredth of a zoom unit.
C10_HighlightZoom ==
    framed.highlightTrip # NoTrip =>
        LET d == geoDistance(framed.highlightTrip.origin, framed.highlightTrip.destination)
            scaled == IF framed.interactive THEN (d * 15) \div 10 ELSE (d * 18) \div 10
            span == IF scaled > 1000 THEN scaled ELSE 1000
            z == defaultState.zoom
            whole == z \div ZoomUnit
            rest == PiMicro - whole * span
            hundredths == (z % ZoomUnit) \div 10
        IN /\ d >= 0 /\ d <= PiMicro
           /\ span > 0
           /\ z >= 1 * ZoomUnit /\ z <= 4000 * ZoomUnit
           /\ IF span >= PiMicro
              THEN z = 1 * ZoomUnit
              ELSE /\ whole * span <= PiMicro /\ PiMicro < (whole + 1) * span
                   /\ hundredths * span <= rest * 100
                   /\ rest * 100 < (hundredths + 1) * span

\* C10 witness: a highlighted trip with coincident origin and destination was
\* framed; the divisor is the minimum span and the zoom is pi / 0.001.
C10_Witness ==
    /\ framed.highlightTrip.id = "t8"
    /\ framed.highlightTrip.origin = framed.highlightTrip.destination
    /\ defaultState.zoom > 3141 * ZoomUnit
    /\ zoom = defaultState.zoom

\* The highlighted trip's id, or its absence.
C11_HighlightOf(hl) == IF hl = NoTrip THEN <<>> ELSE <<hl.id>>

\* C11 (as claimed): whenever a render differs from the previous one in the
\* ordered sequence of trip ids, in the highlighted trip's id (or its absence)
\* or in the view mode, auto-framing is re-run for the new props, and rotation,
\* zoom and the default reference are the newly computed pose.
C11_IdentityChangeReframes ==
    [][(\/ tripIds(trips') # tripIds(trips)
        \/ C11_HighlightOf(highlightTrip') # C11_HighlightOf(highlightTrip)
        \/ viewMode' # viewMode) =>
          LET pose == autoCenterPose(trips', highlightTrip', interactionEnabled')
          IN /\ framed' = [trips |-> trips', highlightTrip |-> highlightTrip',
                           interactive |-> interactionEnabled']
             /\ rotation' = pose.rotation
             /\ zoom' = pose.zoom
             /\ defaultState' = pose]_vars

\* C12: while the ordered trip ids, the highlighted trip's id and the view mode
\* stay the same, no step other than a camera gesture (pointer move, wheel,
\* double-click) or resetView changes rotation, zoom or the default reference,
\* and none re-runs auto-framing: not a re-render, not the same trips delivered
\* anew, not the geometry load, not a resize.
C12_NoReframeWhileKeyUnchanged ==
    [][(/\ tripIds(trips') = tripIds(trips)
        /\ C11_HighlightOf(highlightTrip') = C11_HighlightOf(highlightTrip)
        /\ viewMode' = viewMode
        /\ ev'.type \notin {"pointermove", "wheel", "dblclick", "resetView"}) =>
           UNCHANGED <<rotation, zoom, defaultState, framed>>]_vars

\* C12 witness: after a gesture moved the zoom away from the framed one, the
\* host delivered an edited trip under the same id; the camera kept the
\* gesture's zoom and the framing is still that of the old trip.
C12_Witness ==
    /\ ev.type = "none"
    /\ mapShown
    /\ zoom # defaultState.zoom
    /\ trips # framed.trips
    /\ tripIds(trips) = tripIds(framed.trips)

\* C15: a viewport resize changes the stored dimensions only: rotation, zoom,
\* the default reference and the gesture session (active pointers, last
\* position, pinch baseline, drag flag) are as before.
C15_ResizeKeepsCameraAndSession ==
    [][ev'.type = "resize" =>
          UNCHANGED <<rotation, zoom, defaultState, evCache, lastPos, prevDiff, isDragging>>]_vars

\* C15 witness: the viewport was resized while a pointer was down and the zoom
\* was away from the framed one.
C15_Witness ==
    /\ ev.type = "resize"
    /\ dimensions # <<800, 400>>
    /\ evCache # <<>>
    /\ zoom # defaultState.zoom

\* C13: after every step and its effects, the value last passed to
\* onZoomChange is true exactly when zoom differs from the default zoom by more
\* than 0.1, the default zoom being the zoom of the latest auto-framing; a step
\* that changes the rotation alone never turns the reported value to true.
C13_ReportMatchesZoomDeviation ==
    /\ [](/\ defaultState.zoom =
                autoCenterPose(framed.trips, framed.highlightTrip, framed.interactive).zoom
          /\ zoomReported <=> (\/ 10 * (zoom - defaultState.zoom) > ZoomUnit
                               \/ 10 * (defaultState.zoom - zoom) > ZoomUnit))
    /\ [][(rotation' # rotation /\ zoom' = zoom /\ defaultState' = defaultState) =>
              (zoomReported' => zoomReported)]_vars

\* C13 witness: a drag turned the globe while the zoom was away from the default
\* by no more than 0.1; the host was last told "not zoomed".
C13_Witness ==
    /\ ev.type = "pointermove"
    /\ rotation # defaultState.rotation
    /\ zoom # defaultState.zoom
    /\ ~zoomReported

\* C14: right after resetView() rotation and zoom are the pose auto-framing
\* computes for the current trips, highlight and interactive flag, the default
\* reference is that pose and the host was told isZoomed = false; a second
\* resetView() right after the first leaves the camera as it is.
C14_ResetViewRestoresPose ==
    /\ [](ev.type = "resetView" =>
            LET pose == autoCenterPose(trips, highlightTrip, interactionEnabled)
            IN /\ rotation = pose.rotation
               /\ zoom = pose.zoom
               /\ defaultState = pose
               /\ zoomReported = FALSE)
    /\ [][(ev.type = "resetView" /\ ev'.type = "resetView") =>
              UNCHANGED <<rotation, zoom, defaultState>>]_vars

\* C14 witness: resetView() was called on a highlighted trip after gestures had
\* changed the camera and the interactive flag had changed since the framing.
C14_Witness ==
    /\ ev.type = "resetView"
    /\ nEvents > 0
    /\ highlightTrip # NoTrip
    /\ zoom > 1 * ZoomUnit
    /\ ~interactionEnabled

\* The angle between two of the model's points, in thousandths of a degree.
C16_Degrees(p, c) ==
    IF p.lat = 0 /\ c.lat = 0
    THEN LET delta == (IF p.lng >= c.lng THEN p.lng - c.lng ELSE c.lng - p.lng) % 360000
         IN IF delta > 180000 THEN 360000 - delta ELSE delta
    ELSE IF p.lat = c.lat THEN 0 ELSE 90000
\* The markers emitted for the i-th trip.
C16_MarkersOf(i) == {k \in 1..Len(renderPoints) : renderPoints[k].index = i - 1}

\* C16: with no highlighted trip, a trip's destination gets a marker only if
\* it is less than 90 degrees from the view center; a destination at exactly
\* 90 degrees or at the antipode (180 degrees) gets none; no trip gets more
\* than one marker and every marker belongs to a trip.
C16_MarkersInVisibleHemisphere ==
    highlightTrip = NoTrip =>
        /\ \A i \in 1..Len(trips) :
              LET deg == C16_Degrees(trips[i].destination, [lng |-> -rotation[1], lat |-> -rotation[2]])
              IN /\ C16_MarkersOf(i) # {} => deg < 90000
                 /\ deg \in {90000, 180000} => C16_MarkersOf(i) = {}
                 /\ Cardinality(C16_MarkersOf(i)) <= 1
        /\ \A k \in 1..Len(renderPoints) : renderPoints[k].index \in 0..(Len(trips) - 1)

\* C16 witness: two trips, no highlight; one destination is at the view center
\* and has its marker, the other lies exactly 90 degrees away and has none.
C16_Witness ==
    /\ highlightTrip = NoTrip
    /\ Len(trips) = 2
    /\ Len(renderPoints) = 1
    /\ \E i \in 1..2 :
          /\ C16_MarkersOf(i) = {}
          /\ C16_Degrees(trips[i].destination, [lng |-> -rotation[1], lat |-> -rotation[2]]) = 90000

\* The labels of a trip list with the number of trips that carry each: the
\* country and the province of the destination, or else of the origin, and the
\* destination's city, or else its name.
C17_Country(t) == IF t.destination.country # "" THEN t.destination.country ELSE t.origin.country
C17_Province(t) == IF t.destination.state # "" THEN t.destination.state ELSE t.origin.state
C17_City(t) == IF t.destination.city # "" THEN t.destination.city ELSE t.destination.name
C17_Labels(ts) ==
    {l \in {<<"country", C17_Country(ts[i])>> : i \in 1..Len(ts)}
          \cup {<<"province", C17_Province(ts[i])>> : i \in 1..Len(ts)}
          \cup {<<"city", C17_City(ts[i])>> : i \in 1..Len(ts)} : l[2] # ""}
C17_CountOf(ts, l) ==
    Cardinality({i \in 1..Len(ts) :
        \/ l[1] = "country" /\ C17_Country(ts[i]) = l[2]
        \/ l[1] = "province" /\ C17_Province(ts[i]) = l[2]
        \/ l[1] = "city" /\ C17_City(ts[i]) = l[2]})

\* C17: for every trip list the word cloud shows at most 50 labels, each a
\* label of the list shown once, no shown label counts less than a label left
\* out, and nothing is shown while a trip is highlighted.
C17_WordCloudTopFifty ==
    \A enable \in BOOLEAN :
        LET out == wordCloudElements(trips, highlightTrip, enable, interactionEnabled)
            kept == {<<out[k].type, out[k].text>> : k \in 1..Len(out)}
            dropped == C17_Labels(trips) \ kept
        IN /\ Len(out) <= 50
           /\ Cardinality(kept) = Len(out)
           /\ kept \subseteq C17_Labels(trips)
           /\ (enable \/ interactionEnabled) /\ highlightTrip = NoTrip =>
                 \A k \in kept, d \in dropped : C17_CountOf(trips, k) >= C17_CountOf(trips, d)
           /\ highlightTrip # NoTrip => out = <<>>

\* C17 witness: a list with more than 50 labels and no highlight: the cloud
\* shows 50 of them and leaves out one that counts as much as the last shown.
C17_Witness ==
    /\ highlightTrip = NoTrip
    /\ interactionEnabled
    /\ Cardinality(C17_Labels(trips)) > 50
    /\ LET out == wordCloudElements(trips, highlightTrip, FALSE, interactionEnabled)
       IN /\ Len(out) = 50
          /\ \E d \in C17_Labels(trips) :
                /\ \A k \in 1..50 : <<out[k].type, out[k].text>> # d
                /\ C17_CountOf(trips, d) = out[50].count

\* C18: in an interactive view, when every pointer is released before it is
\* pressed again, the drag flag is set exactly when the active pointer set is
\* non-empty, the last position is recorded exactly when it is non-empty, and
\* with the set empty the controller is Idle: drag flag off, last position and
\* pinch baseline cleared.
C18_DragFlagFollowsPointers ==
    /\ isDragging <=> Len(evCache) > 0
    /\ lastPos # <<>> <=> Len(evCache) > 0
    /\ Len(evCache) = 0 => (~isDragging /\ lastPos = <<>> /\ prevDiff = -1)

\* C18 witness: the last pointer was released after a pinch had changed the
\* zoom; the controller is Idle again.
C18_Witness ==
    /\ ev.type = "pointerup"
    /\ evCache = <<>>
    /\ ~isDragging /\ lastPos = <<>> /\ prevDiff = -1
    /\ zoom # defaultState.zoom

\* C19 (as claimed): whenever the number of active pointers changes from
\* exactly two to another number, down to one or up to three, the pinch
\* baseline is reset.
C19_BaselineResetOnLeavingTwo ==
    [][(Len(evCache) = 2 /\ Len(evCache') # 2) => prevDiff' = -1]_vars

\* C20 (as claimed): the active pointer set never holds more than 2 pointers.
C20_AtMostTwoPointers == Len(evCache) <= 2

\* C21: a pointer-up or pointer-leave for a pointer id that is not in the
\* active set leaves rotation, zoom, the active set, the drag flag, the last
\* position and the pinch baseline unchanged, with zero, one, two or more
\* active pointers.
C21_UnmatchedUpIsNoOp ==
    [][(ev'.type = "pointerup" /\ ev'.id \notin ActiveIds)
          => UNCHANGED <<rotation, zoom, evCache, isDragging, lastPos, prevDiff>>]_vars

\* C21 witness: the hovering mouse left the globe while two pointers were in
\* a pinch with a recorded baseline after a drag had turned the globe.
C21_Witness ==
    /\ ev.type = "pointerup"
    /\ ev.id \in HoverPointers
    /\ Len(evCache) = 2
    /\ prevDiff > 0
    /\ isDragging /\ lastPos # <<>>
    /\ rotation # defaultState.rotation

\* C22 (as claimed): with exactly two active pointers, each pointer-move
\* compares the current pointer distance with the previous sample: larger
\* multiplies zoom by 1.05, smaller multiplies it by 0.95 (clamped to
\* [1, 4000]), equal leaves zoom unchanged; a move with no previous sample only
\* records the baseline, and no pinch move changes rotation.
C22_PinchComparesWithPreviousSample ==
    [][(ev'.type = "pointermove" /\ Len(evCache) = 2)
          => LET cur == curDiff(evCache')
             IN /\ zoom' = IF prevDiff = -1 THEN zoom
                            ELSE IF cur > prevDiff THEN Min((zoom * 105) \div 100, ZoomMax)
                            ELSE IF cur < prevDiff THEN Max((zoom * 95) \div 100, ZoomMin)
                            ELSE zoom
                /\ prevDiff' = cur
                /\ rotation' = rotation]_vars

\* C23: in an interactive view every wheel event stops propagation, whatever
\* the zoom and the highlight, multiplies zoom by 1.1 when its delta is
\* negative and divides zoom by 1.1 when its delta is positive, with the
\* result clamped to [1, 4000]; rotation is unchanged.
C23_WheelZooms ==
    [][(ev'.type = "wheel" /\ interactionEnabled)
          => /\ ev'.stopped
             /\ ev'.deltaY < 0 => zoom' = Min((zoom * 11) \div 10, ZoomMax)
             /\ ev'.deltaY > 0 => zoom' = Max((zoom * 10) \div 11, ZoomMin)
             /\ rotation' = rotation]_vars

\* C23 witness: a wheel event with positive delta arrived while the camera was
\* at the minimum zoom without a highlight (where a press in the top band is
\* let through) and was stopped; the zoom stayed clamped at 1.
C23_Witness ==
    /\ ev.type = "wheel"
    /\ ev.deltaY > 0
    /\ ev.stopped
    /\ interactionEnabled
    /\ highlightTrip = NoTrip
    /\ zoom = ZoomMin

\* |d| x 0.25 / sqrt(zoom) in thousandths of a degree, for zoom z in thousandths.
C24_Scaled(d, z) ==
    LET root == isqrt(z * 10)
        mag == ((IF d < 0 THEN -d ELSE d) * 25000) \div root
    IN IF d < 0 THEN -mag ELSE mag

\* C24: in an interactive view a pointer-move while exactly one pointer is
\* active adds dx x s to the rotation longitude and subtracts dy x s from the
\* rotation latitude, where (dx, dy) is the pixel delta from the last recorded
\* position and s = 0.25 / sqrt(zoom), records the event position as the new
\* last position, and leaves zoom unchanged.
C24_DragRotates ==
    [][(ev'.type = "pointermove" /\ interactionEnabled /\ Len(evCache) = 1)
          => LET dx == ev'.x - lastPos[1]
                 dy == ev'.y - lastPos[2]
             IN /\ rotation' = <<rotation[1] + C24_Scaled(dx, zoom),
                                  rotation[2] - C24_Scaled(dy, zoom)>>
                /\ lastPos' = <<ev'.x, ev'.y>>
                /\ zoom' = zoom]_vars

\* C24 witness: the single active pointer was dragged across and down the
\* globe at a zoom above 1; longitude and latitude both moved and the event
\* position is the new last position.
C24_Witness ==
    /\ ev.type = "pointermove"
    /\ ev.stopped
    /\ Len(evCache) = 1
    /\ lastPos = <<ev.x, ev.y>>
    /\ zoom > ZoomMin
    /\ rotation[1] > defaultState.rotation[1]
    /\ rotation[2] < defaultState.rotation[2]

\* C25 (as claimed): in every drag rotation step, the pixel delta used is the
\* moved pointer's own displacement since that same pointer's previous
\* recorded event (its pointer-down or its last move), also for the first move
\* after a pinch has ended with one pointer remaining.
C25_DragUsesOwnDisplacement ==
    [][(ev'.type = "pointermove" /\ ev'.id \in ActiveIds /\ Len(evCache) = 1)
          => rotation' = <<rotation[1] + C24_Scaled(ev'.x - evCache[1].x, zoom),
                           rotation[2] - C24_Scaled(ev'.y - evCache[1].y, zoom)>>]_vars

\* C26 (as claimed): a pointer-move from a pointer that is not in the active
\* set (one whose pointer-down was rejected by the zoning rule, or a hovering
\* mouse) never changes rotation, zoom, last position or pinch baseline,
\* whatever the state of the other pointers.
C26_InactiveMoveChangesNothing ==
    [][(ev'.type = "pointermove" /\ ev'.id \notin ActiveIds)
          => UNCHANGED <<rotation, zoom, lastPos, prevDiff>>]_vars

\* C27 (as claimed): once the process-wide geometry cache has been populated,
\* every globe instance that is still mounted eventually holds the geometry
\* and leaves the loading placeholder, including an instance whose own awaited
\* fetch failed before a later mount's retry succeeded.
C27_MountedEventuallyHoldsGeometry ==
    \A i \in InstIds :
        (cachedWorldData = LAND /\ inst[i].pc = "mounted")
            ~> (inst[i].worldData = LAND \/ inst[i].pc # "mounted")

\* C28 (as claimed): after every add, edit or delete of a trip initiated from
\* the application UI has completed, the in-memory trip list held by App
\* equals the trip list in local storage, for any sequence of such operations.
C28_AppTripsEqualStore == appTrips = storedTrips

\* C29 (as claimed): when the enableWordCloud option is false, the word-cloud
\* output is empty, whether or not the view is interactive.
C29_NoCloudWhenDisabled ==
    wordCloudElements(trips, highlightTrip, FALSE, interactionEnabled) = <<>>

\* C30 (as claimed): a wheel event whose vertical delta is zero leaves zoom
\* unchanged.
C30_ZeroDeltaKeepsZoom ==
    [][(ev'.type = "wheel" /\ ev'.deltaY = 0) => zoom' = zoom]_vars

=============================================================================
